---- MODULE Spec2Model ----
(***************************************************************************)
(* Model of examples/generative/ipynb/text_generation_with_miniature_gpt   *)
(* (a miniature GPT in Keras): the TextGenerator callback, top-k sampling, *)
(* the causal attention mask, MultiHeadSelfAttention's constructor, the    *)
(* corpus standardization and the (input, label) preparation.              *)
(*                                                                         *)
(* Python lists are TLA+ sequences (1-based); Python indices stay 0-based  *)
(* integers and are applied with PyIndex, which wraps negative indices as  *)
(* Python and numpy do.                                                    *)
(***************************************************************************)
EXTENDS Integers, Sequences, FiniteSets

VARIABLES
    \* ---- notebook configuration cell
    maxlen,                 \* global maxlen
    vocab_size,             \* global vocab_size
    \* ---- TextGenerator object
    self_max_tokens,
    self_start_tokens,      \* contents of the list object self.start_tokens refers to
    ctor_start_tokens,      \* the start_tokens argument __init__ was given
    self_k,
    self_print_every,
    \* ---- training driver / on_epoch_end invocation
    epoch,                  \* the epoch the next (or running) invocation gets
    pc,                     \* position inside on_epoch_end
    start_tokens,           \* the local list: [ref |-> which object, items |-> contents]
    tokens_generated,
    num_tokens_generated,
    x,                      \* the model input of the current iteration
    sample_index,
    txt,                    \* the text printed by the last report, its characters
    reported,               \* epochs whose invocation printed a text
    skipped,                \* epochs whose invocation returned early
    \* ---- sample_from call
    logits,
    sample_token,
    \* ---- MultiHeadSelfAttention object
    attn,                   \* "unbuilt", "built", or the exception __init__ raised
    self_embed_dim,
    self_num_heads,
    self_projection_dim,
    self_layers,            \* the Dense layers __init__ created
    attention_mask,         \* the mask of the layer's last attention()
    \* ---- causal_attention_mask called as a static method
    last_mask,              \* the last call: [n_dest, n_src, m]
    prev_mask,              \* the call before it
    \* ---- corpus preparation of one text sample
    text,                   \* the raw sample, a sequence of characters
    standardized,           \* custom_standardization(text)
    tokenized_sentences,    \* vectorize_layer(text), one row
    lm_x,                   \* prepare_lm_inputs_labels(text): x
    lm_y,                   \*                                 y
    done                    \* which of the two calls have been made

genVars == <<maxlen, vocab_size, self_max_tokens, self_start_tokens,
             ctor_start_tokens, self_k,
             self_print_every, epoch, pc, start_tokens, tokens_generated,
             num_tokens_generated, x, sample_index, txt, reported, skipped>>
sampleVars == <<logits, sample_token>>
attnVars == <<attn, self_embed_dim, self_num_heads, self_projection_dim,
              self_layers, attention_mask, last_mask, prev_mask>>
prepVars == <<text, standardized, tokenized_sentences, lm_x, lm_y, done>>
vars == <<genVars, sampleVars, attnVars, prepVars>>

----------------------------------------------------------------------------
(* Bounds of the model *)

MaxLenBound == 2        \* maxlen ranges over 1..MaxLenBound
MaxGen == 2             \* max_tokens ranges over 0..MaxGen
MaxEpoch == 3           \* epochs 0..MaxEpoch are run
MaxVocab == 3           \* vocabulary sizes 1..MaxVocab in sample_from
MaxLogit == 2           \* logit levels 0..MaxLogit
MaxEmbed == 4           \* embed_dim ranges over 1..MaxEmbed
MaxHeads == 3           \* num_heads ranges over 1..MaxHeads
MaxSeq == 3             \* n_dest, n_src and seq_len range over 0..MaxSeq
MaxPieces == 4          \* a raw text is made of 0..MaxPieces pieces

GenVocabSizes == {2}
PrintEveryChoices == {1, 2}
None == -1

----------------------------------------------------------------------------
(* Python helpers *)

Min(a, b) == IF a <= b THEN a ELSE b

\* s[i] for a Python index i (negative counts from the end)
PyIndex(s, i) == IF i >= 0 THEN s[i + 1] ELSE s[Len(s) + i + 1]

\* s[:n] for n >= 0
PyPrefix(s, n) == SubSeq(s, 1, Min(n, Len(s)))

\* [0] * n
Zeros(n) == [i \in 1..n |-> 0]

\* s[:-1] and s[1:]
PyDropLast(s) == SubSeq(s, 1, Len(s) - 1)
PyDropFirst(s) == SubSeq(s, 2, Len(s))

NoCall == [n_dest |-> None, n_src |-> None, m |-> <<>>]

\* all sequences over S of length 0..n
SeqsUpTo(S, n) == UNION {[1..l -> S] : l \in 0..n}

----------------------------------------------------------------------------
(* TextGenerator.sample_from *)

\* the index tf.math.top_k takes next among `left`: the largest value, the
\* lowest index among equal values
ArgMax(lg, left) ==
    CHOOSE j \in left : \A i \in left : lg[j] > lg[i] \/ (lg[j] = lg[i] /\ j <= i)

ArgMin(lg, left) ==
    CHOOSE j \in left : \A i \in left : lg[j] < lg[i] \/ (lg[j] = lg[i] /\ j <= i)

RECURSIVE TopKFrom(_, _, _)
TopKFrom(lg, k, left) ==
    IF k = 0 \/ left = {} THEN <<>>
    ELSE LET best == ArgMax(lg, left)
         IN  <<best>> \o TopKFrom(lg, k - 1, left \ {best})

RECURSIVE BottomKFrom(_, _, _)
BottomKFrom(lg, k, left) ==
    IF k = 0 \/ left = {} THEN <<>>
    ELSE LET worst == ArgMin(lg, left)
         IN  <<worst>> \o BottomKFrom(lg, k - 1, left \ {worst})

\* a top_k that selects the k smallest entries
top_k_smallest(lg, k) ==
    LET indices == BottomKFrom(lg, k, DOMAIN lg)
    IN  [values |-> [i \in 1..Len(indices) |-> lg[indices[i]]], indices |-> indices]

\* tf.math.top_k(logits, k, sorted=True): (values, indices), values descending
top_k(lg, k) ==
    LET indices == TopKFrom(lg, k, DOMAIN lg)
    IN  [values |-> [i \in 1..Len(indices) |-> lg[indices[i]]], indices |-> indices]

\* exp of a logit level, in exact arithmetic and up to the choice of base
Exp(v) == 2 ^ v

RECURSIVE SumSeq(_)
SumSeq(s) == IF s = <<>> THEN 0 ELSE Head(s) + SumSeq(Tail(s))

\* keras.activations.softmax over one row: each entry as a fraction
\* [num, den] of exact integers
softmax(values) ==
    LET e == [i \in 1..Len(values) |-> Exp(values[i])]
    IN  [i \in 1..Len(values) |-> [num |-> e[i], den |-> SumSeq(e)]]

\* np.random.choice(indices, p=preds): the outcomes of non-zero probability
choice(indices, preds) == {indices[i] : i \in {n \in 1..Len(indices) : preds[n].num > 0}}

\* the tokens one call of sample_from(logits) may return, top_k = k
sample_from(lg, k) ==
    LET t == top_k(lg, k)
    IN  choice(t.indices, softmax(t.values))

LogitLevels == 0..MaxLogit
LogitRows(n) == [0..(n - 1) -> LogitLevels]

----------------------------------------------------------------------------
(* TextGenerator: __init__, detokenize, on_epoch_end *)

\* vocab = vectorize_layer.get_vocabulary(): "" for padding (index 0),
\* "[UNK]" for unknown words (index 1), then the words of the corpus; a word
\* is a sequence of characters
vocab == << <<>>, <<"[", "U", "N", "K", "]">>, <<"a">>, <<",">>, <<"b">>, <<".">> >>

\* the index_to_word argument the callback is built with
index_to_word == vocab

detokenize(number) == index_to_word[number + 1]

\* " ".join(words): the characters of the words, one space between two
\* consecutive words
RECURSIVE Join(_)
Join(words) ==
    IF words = <<>> THEN <<>>
    ELSE IF Len(words) = 1 THEN words[1]
    ELSE words[1] \o <<" ">> \o Join(Tail(words))

\* a local name bound to the object self.start_tokens refers to
AliasList(l) == [ref |-> "self", items |-> l]

\* [_ for _ in l]: a new list object with the items of l
CopyList(l) == [ref |-> "fresh", items |-> [i \in 1..Len(l) |-> l[i]]]

\* the test of the early return, negated: does this epoch report?
Reports(ep, print_every) == ~((ep + 1) % print_every /= 0)

\* while num_tokens_generated <= self.max_tokens
LoopTest(n, max_tokens) == n <= max_tokens

\* an input that is never truncated
BuildInputNoTruncate(toks, ml) ==
    LET pad_len == ml - Len(toks)
    IN  IF pad_len > 0
        THEN [x |-> toks \o Zeros(pad_len), sample_index |-> Len(toks) - 1]
        ELSE [x |-> toks, sample_index |-> Len(toks) - 1]

\* the loop body up to the model input: pad_len, sample_index and x
BuildInput(toks, ml) ==
    LET pad_len == ml - Len(toks)
        sample_index0 == Len(toks) - 1
    IN  IF pad_len < 0
        THEN [x |-> PyPrefix(toks, ml), sample_index |-> ml - 1]
        ELSE IF pad_len > 0
        THEN [x |-> toks \o Zeros(pad_len), sample_index |-> sample_index0]
        ELSE [x |-> toks, sample_index |-> sample_index0]

NoList == [ref |-> "none", items |-> <<>>]

\* the locals of on_epoch_end when no invocation runs
FrameIdle ==
    /\ start_tokens' = NoList
    /\ tokens_generated' = <<>>
    /\ num_tokens_generated' = 0
    /\ x' = <<>>
    /\ sample_index' = None

GenConfig == <<maxlen, vocab_size, self_max_tokens, ctor_start_tokens, self_k,
               self_print_every>>

GenInit ==
    /\ maxlen \in 1..MaxLenBound
    /\ vocab_size \in GenVocabSizes
    \* TextGenerator.__init__
    /\ self_max_tokens \in 0..MaxGen
    /\ ctor_start_tokens \in SeqsUpTo(0..(vocab_size - 1), maxlen + 1)
    /\ self_start_tokens = ctor_start_tokens
    /\ self_k \in 1..vocab_size
    /\ self_print_every \in PrintEveryChoices
    \* model.fit has not finished an epoch yet
    /\ epoch = 0
    /\ pc = "idle"
    /\ start_tokens = NoList
    /\ tokens_generated = <<>>
    /\ num_tokens_generated = 0
    /\ x = <<>>
    /\ sample_index = None
    /\ txt = <<>>
    /\ reported = {}
    /\ skipped = {}

\* on_epoch_end(epoch) at an epoch that does not report: the early return
\* drops the copy just made
OnEpochEndSkip ==
    /\ pc = "idle"
    /\ epoch <= MaxEpoch
    /\ ~Reports(epoch, self_print_every)
    /\ FrameIdle
    /\ skipped' = skipped \cup {epoch}
    /\ epoch' = epoch + 1
    /\ UNCHANGED <<GenConfig, self_start_tokens, pc, txt, reported, sampleVars, attnVars, prepVars>>

\* on_epoch_end(epoch) at a reporting epoch, up to the first loop test
OnEpochEndBegin ==
    /\ pc = "idle"
    /\ epoch <= MaxEpoch
    /\ Reports(epoch, self_print_every)
    /\ start_tokens' = CopyList(self_start_tokens)
    /\ num_tokens_generated' = 0
    /\ tokens_generated' = <<>>
    /\ pc' = "loop"
    /\ UNCHANGED <<GenConfig, self_start_tokens, epoch, x, sample_index, txt,
                   reported, skipped, sampleVars, attnVars, prepVars>>

\* one iteration, first half: the loop test holds, x and sample_index are built
LoopPrepare ==
    /\ pc = "loop"
    /\ LoopTest(num_tokens_generated, self_max_tokens)
    /\ LET b == BuildInput(start_tokens.items, maxlen)
       IN  /\ x' = b.x
           /\ sample_index' = b.sample_index
    /\ pc' = "predict"
    /\ UNCHANGED <<GenConfig, self_start_tokens, epoch, start_tokens,
                   tokens_generated, num_tokens_generated, txt, reported, skipped,
                   sampleVars, attnVars, prepVars>>

\* one iteration, second half: model.predict(x) gives some logits at
\* y[0][sample_index], sample_from draws a token, both lists are appended to
LoopPredict ==
    /\ pc = "predict"
    /\ \E y \in LogitRows(vocab_size) :
         \E tok \in sample_from(y, self_k) :
            /\ tokens_generated' = Append(tokens_generated, tok)
            /\ start_tokens' = [start_tokens EXCEPT !.items = Append(@, tok)]
            /\ self_start_tokens' = IF start_tokens.ref = "self"
                                    THEN Append(self_start_tokens, tok)
                                    ELSE self_start_tokens
    /\ num_tokens_generated' = Len(tokens_generated')
    /\ pc' = "loop"
    /\ UNCHANGED <<GenConfig, epoch, x, sample_index, txt, reported, skipped,
                   sampleVars, attnVars, prepVars>>

\* the loop test fails: the text is joined and printed, the invocation returns
LoopExit ==
    /\ pc = "loop"
    /\ ~LoopTest(num_tokens_generated, self_max_tokens)
    /\ LET all == self_start_tokens \o tokens_generated
       IN  txt' = Join([i \in 1..Len(all) |-> detokenize(all[i])])
    /\ reported' = reported \cup {epoch}
    /\ epoch' = epoch + 1
    /\ pc' = "idle"
    /\ FrameIdle
    /\ UNCHANGED <<GenConfig, self_start_tokens, skipped, sampleVars, attnVars, prepVars>>

SampleIdle == logits = <<>> /\ sample_token = None

AttnIdle ==
    /\ attn = "unbuilt"
    /\ self_embed_dim = None
    /\ self_num_heads = None
    /\ self_projection_dim = None
    /\ self_layers = {}
    /\ attention_mask = <<>>
    /\ last_mask = NoCall
    /\ prev_mask = NoCall

PrepIdle ==
    /\ text = <<>>
    /\ standardized = <<>>
    /\ tokenized_sentences = <<>>
    /\ lm_x = <<>>
    /\ lm_y = <<>>
    /\ done = {}

InitGen == GenInit /\ SampleIdle /\ AttnIdle /\ PrepIdle

NextGen == OnEpochEndSkip \/ OnEpochEndBegin \/ LoopPrepare \/ LoopPredict \/ LoopExit

SpecGen == InitGen /\ [][NextGen]_vars

----------------------------------------------------------------------------
(* sample_from called on its own: a generator with top_k = self_k and one   *)
(* row of logits over a vocabulary of vocab_size tokens                     *)

\* the callback's variables while only sample_from is exercised
GenIdle ==
    /\ self_max_tokens = 0
    /\ ctor_start_tokens = <<>>
    /\ self_start_tokens = <<>>
    /\ self_print_every = 1
    /\ epoch = 0
    /\ pc = "idle"
    /\ start_tokens = NoList
    /\ tokens_generated = <<>>
    /\ num_tokens_generated = 0
    /\ x = <<>>
    /\ sample_index = None
    /\ txt = <<>>
    /\ reported = {}
    /\ skipped = {}

SampleInit ==
    /\ vocab_size \in 1..MaxVocab
    /\ self_k \in 1..vocab_size
    /\ logits \in LogitRows(vocab_size)
    /\ sample_token = None

InitSample == maxlen = 1 /\ GenIdle /\ SampleInit /\ AttnIdle /\ PrepIdle

\* sample_token = self.sample_from(logits)
SampleFrom ==
    /\ sample_token' \in sample_from(logits, self_k)
    /\ UNCHANGED <<genVars, logits, attnVars, prepVars>>

NextSample == SampleFrom

SpecSample == InitSample /\ [][NextSample]_vars

----------------------------------------------------------------------------
(* MultiHeadSelfAttention: __init__, causal_attention_mask, attention *)

DenseLayers == {"query_dense", "key_dense", "value_dense", "combine_heads"}

\* a constructor without the divisibility test
mhsa_init_unchecked(embed_dim, num_heads) ==
    [raised |-> "none", embed_dim |-> embed_dim, num_heads |-> num_heads,
     projection_dim |-> embed_dim \div num_heads, layers |-> DenseLayers]

\* MultiHeadSelfAttention.__init__(embed_dim, num_heads): the attributes set
\* when it returns or raises
mhsa_init(embed_dim, num_heads) ==
    IF embed_dim % num_heads /= 0
    THEN [raised |-> "ValueError", embed_dim |-> embed_dim, num_heads |-> num_heads,
          projection_dim |-> None, layers |-> {}]
    ELSE [raised |-> "none", embed_dim |-> embed_dim, num_heads |-> num_heads,
          projection_dim |-> embed_dim \div num_heads, layers |-> DenseLayers]

\* tf.range(n)
tf_range(n) == [t \in 1..n |-> t - 1]

\* tf.cast of a boolean to a numeric dtype
CastBool(b) == IF b THEN 1 ELSE 0

\* a mask aligned at the upper left corner
causal_attention_mask_upper_left(n_dest, n_src) ==
    LET i == tf_range(n_dest)
        j == tf_range(n_src)
    IN  [r \in 1..n_dest |-> [c \in 1..n_src |-> CastBool(i[r] >= j[c])]]

\* causal_attention_mask(n_dest, n_src, dtype): rows are destinations
\* (i, a column), columns are sources (j), m = i >= j - n_src + n_dest
causal_attention_mask(n_dest, n_src) ==
    LET i == tf_range(n_dest)
        j == tf_range(n_src)
        m == [r \in 1..n_dest |-> [c \in 1..n_src |-> i[r] >= j[c] - n_src + n_dest]]
    IN  [r \in 1..n_dest |-> [c \in 1..n_src |-> CastBool(m[r][c])]]

\* a mask that lets every position see every position
attention_mask_of_all_ones(dim_dest, dim_src) ==
    [r \in 1..dim_dest |-> [c \in 1..dim_src |-> 1]]

\* attention(query, key, value): the mask built from the score's last two
\* dimensions, dim_dest = len(query), dim_src = len(key)
attention_mask_of(dim_dest, dim_src) == causal_attention_mask(dim_dest, dim_src)

\* MultiHeadSelfAttention(embed_dim, num_heads)
Construct ==
    /\ attn = "unbuilt"
    /\ \E embed_dim \in 1..MaxEmbed, num_heads \in 1..MaxHeads :
         LET o == mhsa_init(embed_dim, num_heads)
         IN  /\ attn' = IF o.raised = "none" THEN "built" ELSE o.raised
             /\ self_embed_dim' = o.embed_dim
             /\ self_num_heads' = o.num_heads
             /\ self_projection_dim' = o.projection_dim
             /\ self_layers' = o.layers
    /\ UNCHANGED <<attention_mask, last_mask, prev_mask, genVars, sampleVars, prepVars>>

\* MultiHeadSelfAttention.causal_attention_mask(n_dest, n_src, dtype)
CausalAttentionMask ==
    /\ \E n_dest \in 0..MaxSeq, n_src \in 0..MaxSeq :
         last_mask' = [n_dest |-> n_dest, n_src |-> n_src,
                       m |-> causal_attention_mask(n_dest, n_src)]
    /\ prev_mask' = last_mask
    /\ UNCHANGED <<attn, self_embed_dim, self_num_heads, self_projection_dim,
                   self_layers, attention_mask, genVars, sampleVars, prepVars>>

\* layer(inputs) on a built layer: query, key and value are projections of
\* the same inputs of seq_len positions, so attention() sees
\* dim_dest = dim_src = seq_len
Call ==
    /\ attn = "built"
    /\ \E seq_len \in 0..MaxSeq :
         attention_mask' = attention_mask_of(seq_len, seq_len)
    /\ UNCHANGED <<attn, self_embed_dim, self_num_heads, self_projection_dim,
                   self_layers, last_mask, prev_mask, genVars, sampleVars, prepVars>>

InitAttn ==
    maxlen = 1 /\ vocab_size = 1 /\ self_k = 1 /\ GenIdle /\ SampleIdle /\ AttnIdle /\ PrepIdle

NextAttn == Construct \/ CausalAttentionMask \/ Call

SpecAttn == InitAttn /\ [][NextAttn]_vars

----------------------------------------------------------------------------
(* Corpus preparation: custom_standardization, vectorize_layer,            *)
(* prepare_lm_inputs_labels                                                *)

\* string.punctuation (the backquote is written "grave": a string of this
\* language cannot hold it)
Punctuation ==
    {"!", "\"", "#", "$", "%", "&", "'", "(", ")", "*", "+", ",", "-", ".", "/",
     ":", ";", "<", "=", ">", "?", "@", "[", "\\", "]", "^", "_", "grave", "{", "|",
     "}", "~"}

Whitespace == {" "}

\* tf.strings.lower on one character
LowerChar(c) ==
    CASE c = "A" -> "a"
      [] c = "B" -> "b"
      [] c = "R" -> "r"
      [] OTHER -> c

lower(s) == [i \in 1..Len(s) |-> LowerChar(s[i])]

BrTag == <<"<", "b", "r", " ", "/", ">">>

StartsWith(s, t) == Len(s) >= Len(t) /\ SubSeq(s, 1, Len(t)) = t

\* tf.strings.regex_replace(s, "<br />", " "): every match, left to right
RECURSIVE ReplaceBr(_)
ReplaceBr(s) ==
    IF s = <<>> THEN <<>>
    ELSE IF StartsWith(s, BrTag)
    THEN <<" ">> \o ReplaceBr(SubSeq(s, Len(BrTag) + 1, Len(s)))
    ELSE <<Head(s)>> \o ReplaceBr(Tail(s))

\* a replacement that puts the space after the punctuation character
RECURSIVE ReplacePunctSpaceAfter(_)
ReplacePunctSpaceAfter(s) ==
    IF s = <<>> THEN <<>>
    ELSE IF Head(s) \in Punctuation
    THEN <<Head(s), " ">> \o ReplacePunctSpaceAfter(Tail(s))
    ELSE <<Head(s)>> \o ReplacePunctSpaceAfter(Tail(s))

\* tf.strings.regex_replace(s, "([<string.punctuation>])", r" \1"): every
\* punctuation character is replaced by a space and itself
RECURSIVE ReplacePunct(_)
ReplacePunct(s) ==
    IF s = <<>> THEN <<>>
    ELSE IF Head(s) \in Punctuation
    THEN <<" ", Head(s)>> \o ReplacePunct(Tail(s))
    ELSE <<Head(s)>> \o ReplacePunct(Tail(s))

custom_standardization(input_string) ==
    LET lowercased == lower(input_string)
        stripped_html == ReplaceBr(lowercased)
    IN  ReplacePunct(stripped_html)

\* the whitespace split of TextVectorization: the maximal runs of
\* non-whitespace characters, in order
RECURSIVE SplitFrom(_, _)
SplitFrom(s, cur) ==
    IF s = <<>> THEN (IF cur = <<>> THEN <<>> ELSE <<cur>>)
    ELSE IF Head(s) \in Whitespace
    THEN (IF cur = <<>> THEN <<>> ELSE <<cur>>) \o SplitFrom(Tail(s), <<>>)
    ELSE SplitFrom(Tail(s), Append(cur, Head(s)))

Split(s) == SplitFrom(s, <<>>)

\* the vocabulary lookup: the word's index in vocab, 1 for a word that is
\* not in it
word_to_index(w) ==
    IF \E i \in 3..Len(vocab) : vocab[i] = w
    THEN (CHOOSE i \in 3..Len(vocab) : vocab[i] = w) - 1
    ELSE 1

\* a vectorization that only truncates
vectorize_layer_unpadded(t, ml) ==
    LET words == Split(custom_standardization(t))
        ids == [i \in 1..Len(words) |-> word_to_index(words[i])]
    IN  PyPrefix(ids, ml + 1)

\* vectorize_layer(text) for one sample, output_sequence_length = maxlen + 1:
\* standardize, split, look up, then truncate or pad with 0
vectorize_layer(t, ml) ==
    LET words == Split(custom_standardization(t))
        ids == [i \in 1..Len(words) |-> word_to_index(words[i])]
        output_sequence_length == ml + 1
    IN  IF Len(ids) >= output_sequence_length
        THEN PyPrefix(ids, output_sequence_length)
        ELSE ids \o Zeros(output_sequence_length - Len(ids))

\* prepare_lm_inputs_labels(text) for one sample of the batch
prepare_lm_inputs_labels(t, ml) ==
    LET tokenized == vectorize_layer(t, ml)
    IN  [tokenized_sentences |-> tokenized,
         x |-> PyDropLast(tokenized),
         y |-> PyDropFirst(tokenized)]

\* the pieces raw samples are made of: letters of both cases, a space,
\* punctuation, and the line-break tag in both cases
Pieces ==
    {<<"a">>, <<"B">>, <<" ">>, <<",">>, <<".">>, <<"<">>,
     BrTag, <<"<", "B", "R", " ", "/", ">">>}

RECURSIVE Flatten(_)
Flatten(ps) == IF ps = <<>> THEN <<>> ELSE Head(ps) \o Flatten(Tail(ps))

RawTexts == {Flatten(ps) : ps \in SeqsUpTo(Pieces, MaxPieces)}

PrepInit ==
    /\ maxlen \in 1..MaxLenBound
    /\ text \in RawTexts
    /\ standardized = <<>>
    /\ tokenized_sentences = <<>>
    /\ lm_x = <<>>
    /\ lm_y = <<>>
    /\ done = {}

\* custom_standardization(text), as the vectorization layer calls it
CustomStandardization ==
    /\ standardized' = custom_standardization(text)
    /\ done' = done \cup {"standardize"}
    /\ UNCHANGED <<text, tokenized_sentences, lm_x, lm_y, genVars, sampleVars,
                   attnVars>>

\* text_ds.map(prepare_lm_inputs_labels) on this sample
PrepareLmInputsLabels ==
    /\ LET r == prepare_lm_inputs_labels(text, maxlen)
       IN  /\ tokenized_sentences' = r.tokenized_sentences
           /\ lm_x' = r.x
           /\ lm_y' = r.y
    /\ done' = done \cup {"prepare"}
    /\ UNCHANGED <<text, standardized, genVars, sampleVars, attnVars>>

InitPrep ==
    vocab_size = Len(vocab) /\ self_k = 1 /\ GenIdle /\ SampleIdle /\ AttnIdle /\ PrepInit

NextPrep == CustomStandardization \/ PrepareLmInputsLabels

SpecPrep == InitPrep /\ [][NextPrep]_vars

----------------------------------------------------------------------------
(* Properties of the generation callback, checked under SpecGen *)

\* an invocation has returned after printing
Printed == pc = "idle" /\ reported # {}

\* the running sequence at the top of the current iteration
Running == start_tokens.items

RECURSIVE CountSpaces(_)
CountSpaces(s) ==
    IF s = <<>> THEN 0 ELSE (IF Head(s) = " " THEN 1 ELSE 0) + CountSpaces(Tail(s))

\* the number of space-separated tokens of a printed text, len(t.split(" "))
SpaceSeparated(t) == CountSpaces(t) + 1

\* the prompt as it is printed
PromptText == Join([i \in 1..Len(ctor_start_tokens) |-> detokenize(ctor_start_tokens[i])])

\* C1: one reporting invocation with a prompt of p >= 1 tokens and
\* max_tokens = n prints a text of exactly p + n space-separated tokens,
\* i.e. exactly n tokens are generated after the prompt.
C1_PrintsPromptPlusMaxTokens ==
    (Printed /\ Len(ctor_start_tokens) >= 1)
        => SpaceSeparated(txt) = Len(ctor_start_tokens) + self_max_tokens

\* C2: in every iteration the model input x holds, at sample_index, the
\* current last real token of the running sequence (the most recently
\* appended token, or the last prompt token in the first iteration).
C2_SampleIndexHoldsLastToken ==
    (pc = "predict" /\ Running # <<>>)
        => PyIndex(x, sample_index) = Running[Len(Running)]

\* C9 as stated: in every iteration x has exactly maxlen entries and
\* sample_index lies in 0..maxlen-1, for every prompt length.
C9_SampleIndexInTable ==
    pc = "predict" => (Len(x) = maxlen /\ sample_index \in 0..(maxlen - 1))

\* C9, amended: in every iteration x has exactly maxlen entries; sample_index
\* lies in 0..maxlen-1 whenever the running sequence is not empty, and is -1
\* exactly when it is empty (an empty prompt's first iteration), where the
\* Python index -1 reads position maxlen-1; so the position read is always
\* one of the maxlen rows.
C9_InputFitsPositionTable ==
    pc = "predict" =>
        /\ Len(x) = maxlen
        /\ sample_index \in (-1)..(maxlen - 1)
        /\ (sample_index = -1) <=> (Running = <<>>)
        /\ (Running # <<>>) => sample_index \in 0..(maxlen - 1)
        /\ (IF sample_index >= 0 THEN sample_index ELSE maxlen + sample_index)
               \in 0..(maxlen - 1)

\* a prompt longer than maxlen, in an iteration after the first
C9_Witness ==
    /\ pc = "predict"
    /\ Len(ctor_start_tokens) > maxlen
    /\ num_tokens_generated >= 1

\* C10: generation runs exactly at the epochs with (epoch + 1) % print_every
\* = 0; no invocation changes self.start_tokens; every running sequence and
\* every printed text starts from the original prompt, followed only by the
\* tokens generated in that invocation.
C10_ReportsOnScheduleAndKeepsPrompt ==
    /\ self_start_tokens = ctor_start_tokens
    /\ reported \cup skipped = 0..(epoch - 1)
    /\ \A e \in 0..(epoch - 1) :
          /\ (e \in reported) <=> ((e + 1) % self_print_every = 0)
          /\ (e \in skipped) <=> ((e + 1) % self_print_every # 0)
    /\ (pc \in {"loop", "predict"}) =>
          /\ (epoch + 1) % self_print_every = 0
          /\ Running = ctor_start_tokens \o tokens_generated
          /\ num_tokens_generated = Len(tokens_generated)
          /\ num_tokens_generated <= self_max_tokens + 1
    /\ (reported # {}) =>
          /\ StartsWith(txt, PromptText)
          /\ (ctor_start_tokens # <<>>) =>
                /\ Len(txt) > Len(PromptText)
                /\ txt[Len(PromptText) + 1] = " "
    /\ (reported = {}) => txt = <<>>

\* two reports and a skipped epoch lie behind, and the last report printed
\* generated tokens after the prompt
C10_Witness ==
    /\ pc = "idle"
    /\ Cardinality(reported) >= 2
    /\ skipped # {}
    /\ ctor_start_tokens # <<>>
    /\ SpaceSeparated(txt) > Len(ctor_start_tokens)

----------------------------------------------------------------------------
(* Properties of sample_from, checked under SpecSample *)

\* the tokens that come before j in top_k's order: a higher logit, or the
\* same logit and a lower index
Ahead(j) ==
    {i \in DOMAIN logits : logits[i] > logits[j] \/ (logits[i] = logits[j] /\ i < j)}

Higher(j) == {i \in DOMAIN logits : logits[i] > logits[j]}

----------------------------------------------------------------------------
(* Properties of the attention layer, checked under SpecAttn *)

\* M[i,j] of a mask, i and j counted from 0 as in the code
Entry(m, i, j) == m[i + 1][j + 1]

IsMatrix(m, rows, cols) ==
    /\ Len(m) = rows
    /\ \A r \in 1..rows : Len(m[r]) = cols /\ \A c \in 1..cols : m[r][c] \in {0, 1}

MaskCalls == {c \in {last_mask, prev_mask} : c # NoCall}

\* C4: causal_attention_mask(n_dest, n_src) is an n_dest x n_src matrix of
\* 0s and 1s with M[i,j] = 1 exactly when j - n_src + n_dest <= i, and two
\* calls with the same arguments return the same matrix.
C4_MaskEntries ==
    /\ \A c \in MaskCalls :
          /\ IsMatrix(c.m, c.n_dest, c.n_src)
          /\ \A i \in 0..(c.n_dest - 1), j \in 0..(c.n_src - 1) :
                (Entry(c.m, i, j) = 1) <=> (j - c.n_src + c.n_dest <= i)
    /\ (last_mask.n_dest = prev_mask.n_dest /\ last_mask.n_src = prev_mask.n_src)
          => last_mask.m = prev_mask.m

\* two calls with the same arguments of different lengths, the mask holding
\* a 0 and a 1
C4_Witness ==
    /\ prev_mask # NoCall
    /\ last_mask.n_dest = prev_mask.n_dest
    /\ last_mask.n_src = prev_mask.n_src
    /\ last_mask.n_dest # last_mask.n_src
    /\ \E i \in 0..(last_mask.n_dest - 1), j \in 0..(last_mask.n_src - 1) :
          Entry(last_mask.m, i, j) = 1
    /\ \E i \in 0..(last_mask.n_dest - 1), j \in 0..(last_mask.n_src - 1) :
          Entry(last_mask.m, i, j) = 0

\* C5 as stated: for every pair of lengths, M[i,j] = 1 implies j <= i.
C5_NoFuturePosition ==
    \A c \in MaskCalls :
        \A i \in 0..(c.n_dest - 1), j \in 0..(c.n_src - 1) :
            (Entry(c.m, i, j) = 1) => j <= i

\* C5, amended: M[i,j] = 1 implies j <= i + (n_src - n_dest), the triangle
\* being counted from the lower right corner; so M[i,j] = 1 implies j <= i
\* whenever n_src <= n_dest, and in the layer's own forward pass, where
\* n_dest = n_src = seq_len, position i sees exactly the positions j <= i.
C5_NoFuturePositionFromLowerRight ==
    /\ \A c \in MaskCalls :
          \A i \in 0..(c.n_dest - 1), j \in 0..(c.n_src - 1) :
              /\ (Entry(c.m, i, j) = 1) => j <= i + (c.n_src - c.n_dest)
              /\ (c.n_src <= c.n_dest /\ Entry(c.m, i, j) = 1) => j <= i
    /\ IsMatrix(attention_mask, Len(attention_mask), Len(attention_mask))
    /\ \A i \in 0..(Len(attention_mask) - 1), j \in 0..(Len(attention_mask) - 1) :
          (Entry(attention_mask, i, j) = 1) <=> (j <= i)

\* a forward pass over at least two positions, and a static call with
\* n_src < n_dest whose mask holds a 1
C5_Witness ==
    /\ Len(attention_mask) >= 2
    /\ last_mask # NoCall
    /\ last_mask.n_src < last_mask.n_dest
    /\ \E i \in 0..(last_mask.n_dest - 1), j \in 0..(last_mask.n_src - 1) :
          Entry(last_mask.m, i, j) = 1

\* C8: construction raises ValueError exactly when embed_dim is not divisible
\* by num_heads, and then no projection layer has been created; when it
\* succeeds, projection_dim * num_heads = embed_dim.
C8_DivisibilityChecked ==
    (attn # "unbuilt") =>
        /\ (attn = "ValueError") <=> (self_embed_dim % self_num_heads # 0)
        /\ (attn = "ValueError") => (self_layers = {} /\ self_projection_dim = None)
        /\ (attn = "built") =>
              /\ self_projection_dim * self_num_heads = self_embed_dim
              /\ self_layers = DenseLayers
        /\ attn \in {"built", "ValueError"}

\* a construction that failed with more than one head
C8_Witness ==
    /\ attn = "ValueError"
    /\ self_num_heads > 1
    /\ self_embed_dim > self_num_heads

----------------------------------------------------------------------------
(* Properties of the corpus preparation, checked under SpecPrep *)

\* the word indices of the sample before truncation or padding
SampleIds ==
    LET words == Split(custom_standardization(text))
    IN  [i \in 1..Len(words) |-> word_to_index(words[i])]

\* C6: for a text of fewer, exactly or more than maxlen + 1 words,
\* prepare_lm_inputs_labels yields x and y of length maxlen each, where
\* tokens is the text tokenized to exactly maxlen + 1 entries (truncated or
\* padded with 0), x[i] = tokens[i] and y[i] = tokens[i+1].
C6_LabelsAreInputsShiftedByOne ==
    ("prepare" \in done) =>
        /\ Len(tokenized_sentences) = maxlen + 1
        /\ \A i \in 1..(maxlen + 1) :
              tokenized_sentences[i] = IF i <= Len(SampleIds) THEN SampleIds[i] ELSE 0
        /\ Len(lm_x) = maxlen
        /\ Len(lm_y) = maxlen
        /\ \A i \in 0..(maxlen - 1) :
              /\ PyIndex(lm_x, i) = PyIndex(tokenized_sentences, i)
              /\ PyIndex(lm_y, i) = PyIndex(tokenized_sentences, i + 1)

\* a sample of more than maxlen + 1 words, cut, whose labels differ from
\* its inputs
C6_Witness ==
    /\ "prepare" \in done
    /\ Len(SampleIds) > maxlen + 1
    /\ maxlen >= 2
    /\ lm_x # lm_y

Tokens(s) == {Split(s)[i] : i \in 1..Len(Split(s))}

HasPunctuation(t) == \E k \in 1..Len(t) : t[k] \in Punctuation

RECURSIVE CountPunctuation(_)
CountPunctuation(s) ==
    IF s = <<>> THEN 0
    ELSE (IF Head(s) \in Punctuation THEN 1 ELSE 0) + CountPunctuation(Tail(s))

====
